---- MODULE Spec2Model ----
(***************************************************************************)
(* State-machine model of HSTB.kluster.modules.patch.PatchTest.            *)
(*                                                                         *)
(* Conventions                                                             *)
(*   - A Python attribute that may be None is a sequence of length 0       *)
(*     (None) or 1 (the value).  A missing grid cell (NaN) is modelled the *)
(*     same way.                                                           *)
(*   - numpy arrays are 1-indexed sequences; a 2-D array a[i][j] has       *)
(*     i on axis 0 and j on axis 1.                                        *)
(*   - Coordinates and depths are integers; azimuths are multiples of 90   *)
(*     degrees so that the rotation is exact.                              *)
(*   - An initial-parameters dict is modelled by its key set (its values   *)
(*     are never read by the code).                                        *)
(*   - stdout and raised hold what the most recent call printed / the      *)
(*     exception that escaped from it.                                     *)
(***************************************************************************)
EXTENDS Integers, Sequences, FiniteSets, TLC

VARIABLES pc, ctor_arg, azimuth, initial_parameters, fqpr, multibeam_files,
          multibeam_indexes, points, min_x, min_y, grid, a_matrix, b_matrix,
          result, stdout, raised, runs

vars == <<pc, ctor_arg, azimuth, initial_parameters, fqpr, multibeam_files,
          multibeam_indexes, points, min_x, min_y, grid, a_matrix, b_matrix,
          result, stdout, raised, runs>>

fields == <<multibeam_files, multibeam_indexes, points, min_x, min_y, grid,
            a_matrix, b_matrix, result>>

\* ------------------------------------------------------------------ bounds
\* largest number of accepted soundings one line contributes
MaxPts == 2
\* largest number of run_patch invocations on one instance
MaxRuns == 2

\* ------------------------------------------------------------ Option type
None == <<>>

Some(v) == <<v>>

Range(s) == {s[k] : k \in 1..Len(s)}

\* ------------------------------------------------------ constructor (20-54)
\* keys of self._default_parameters, in dict order
DefaultKeys == <<"roll", "roll_unc", "pitch", "pitch_unc", "heading",
                 "heading_unc", "x_unc", "y_unc", "h_scale_unc">>

\* keys a caller may put in the mapping: the recognized ones and a foreign one
CallerKeys == Range(DefaultKeys) \cup {"comment"}

\* seeded fault: the membership test looks at the wrong list entry for heading_unc
MissingKeys_skip(keys) ==
    SelectSeq(DefaultKeys, LAMBDA x : x \notin keys /\ x # "heading_unc")

\* missing_keys = [x for x in self._default_parameters.keys() if x not in initial_parameters.keys()]
MissingKeys(keys) == SelectSeq(DefaultKeys, LAMBDA x : x \notin keys)

ValueError(detail) == [type |-> "ValueError", detail |-> detail]

IndexError == [type |-> "IndexError", detail |-> <<>>]

TypeError == [type |-> "TypeError", detail |-> <<>>]

\* PatchTest.__init__
Construct ==
    /\ pc = "new"
    /\ IF ctor_arg = None
         THEN /\ initial_parameters' = Some(Range(DefaultKeys))
              /\ raised' = None
              /\ pc' = "idle"
         ELSE IF MissingKeys(ctor_arg[1]) # <<>>
           THEN /\ raised' = Some(ValueError(MissingKeys(ctor_arg[1])))
                /\ initial_parameters' = None
                /\ pc' = "failed"
           ELSE /\ initial_parameters' = Some(ctor_arg[1])
                /\ raised' = None
                /\ pc' = "idle"
    /\ UNCHANGED <<ctor_arg, azimuth, fqpr, stdout, runs>>
    /\ UNCHANGED fields

\* ------------------------------------------------- data source (fqpr) model
LineNames == <<"line_a", "line_b">>

Tracks == {"east", "north"}

\* m-th accepted sounding of line k (1 or 2) sailed along track t: the east
\* track runs along y = 2 from x = 1, the north track along x = 0 from y = 0;
\* they cross in the cell [0, 2) x [2, 4)
Sounding(t, m, k) ==
    CASE t = "east"  -> [x |-> 2 * m - 1, y |-> 2, z |-> 10 + 2 * k]
      [] t = "north" -> [x |-> 0, y |-> 2 * m - 2, z |-> 10 + 2 * k]

LineData(t, n, k) == [m \in 1..n |-> Sounding(t, m, k)]

\* what subset_variables_by_line can return for line k
LineReturns(k) == {LineData(t, n, k) : t \in Tracks, n \in 0..MaxPts}

Azimuths == {0, 90}

NoData == [k \in 1..Len(LineNames) |-> <<>>]

\* --------------------------------------- _generate_rotated_points (77-141)
\* np.cos(np.deg2rad(ang)) for ang a multiple of 90 degrees
CosDeg(ang) ==
    CASE ang % 360 = 0 -> 1
      [] ang % 360 = 90 -> 0
      [] ang % 360 = 180 -> -1
      [] ang % 360 = 270 -> 0

\* np.sin(np.deg2rad(ang)) for ang a multiple of 90 degrees
SinDeg(ang) ==
    CASE ang % 360 = 0 -> 0
      [] ang % 360 = 90 -> 1
      [] ang % 360 = 180 -> 0
      [] ang % 360 = 270 -> -1

\* seeded fault: curr_point_index is never advanced, every range starts at 0
LineIndexRanges_from_zero(data) ==
    [k \in 1..Len(data) |-> <<0, Len(data[k])>>]

\* the loop of lines 104-109: before iteration k curr_point_index is 0 for the
\* first line and x.size of the previous line afterwards (curr_point_index = x.size)
LineIndexRanges(data) ==
    [k \in 1..Len(data) |->
        LET curr_point_index == IF k = 1 THEN 0 ELSE Len(data[k - 1])
        IN  <<curr_point_index, curr_point_index + Len(data[k])>>]

RECURSIVE Concatenate(_)
\* finalx/finaly/finalz after the loop: np.concatenate over the lines in order
Concatenate(data) ==
    IF data = <<>> THEN <<>>
    ELSE Concatenate(SubSeq(data, 1, Len(data) - 1)) \o data[Len(data)]

\* seeded fault: the emptiness test is dropped
HasAny_always(v) == Len(v) >= 0

\* ndarray.any(): some element is nonzero
HasAny(v) == \E k \in 1..Len(v) : v[k] # 0

\* ndarray.min() of a non-empty array
ArrayMin(v) == CHOOSE m \in Range(v) : \A n \in Range(v) : m <= n

\* lines 131-138: rotate by cos_az, sin_az about (min_x, min_y)
RotatePoints(final, az) ==
    LET ang == az - 90
        cos_az == CosDeg(ang)
        sin_az == SinDeg(ang)
        mnx == ArrayMin([k \in 1..Len(final) |-> final[k].x])
        mny == ArrayMin([k \in 1..Len(final) |-> final[k].y])
    IN  [k \in 1..Len(final) |->
            LET centered_x == final[k].x - mnx
                centered_y == final[k].y - mny
            IN  [x |-> mnx + cos_az * centered_x - sin_az * centered_y,
                 y |-> mny + sin_az * centered_x + cos_az * centered_y,
                 z |-> final[k].z]]

NoPointsMessage(files) == [text |-> "Found no valid points for", arg |-> files]

\* run_patch entered: _generate_rotated_points
GenerateRotatedPoints ==
    /\ pc = "idle"
    /\ runs < MaxRuns
    /\ runs' = runs + 1
    /\ \E d1 \in LineReturns(1), d2 \in LineReturns(2) :
         LET data == <<d1, d2>>
             final == Concatenate(data)
             finalx == [k \in 1..Len(final) |-> final[k].x]
             finaly == [k \in 1..Len(final) |-> final[k].y]
         IN  /\ fqpr' = data
             /\ multibeam_files' = Some(LineNames)
             /\ multibeam_indexes' = Some(LineIndexRanges(data))
             /\ IF HasAny(finalx)
                  THEN IF Len(final) = 0
                    THEN \* min() of a zero-size array
                         /\ points' = Some(final)
                         /\ raised' = Some(ValueError(<<>>))
                         /\ stdout' = <<>>
                         /\ pc' = "idle"
                         /\ UNCHANGED <<min_x, min_y>>
                    ELSE /\ points' = Some(RotatePoints(final, azimuth))
                         /\ min_x' = Some(ArrayMin(finalx))
                         /\ min_y' = Some(ArrayMin(finaly))
                         /\ raised' = None
                         /\ stdout' = <<>>
                         /\ pc' = "grid"
                  ELSE /\ stdout' = <<NoPointsMessage(LineNames)>>
                       /\ raised' = None
                       /\ pc' = "grid"
                       /\ UNCHANGED <<points, min_x, min_y>>
    /\ UNCHANGED <<ctor_arg, azimuth, initial_parameters, grid, a_matrix,
                   b_matrix, result>>

\* ------------------------------------------------- gridding engine contract
\* The bathygrid engine is an external collaborator.  It is modelled by its
\* contract: a regular raster over the bounding box of the ingested points,
\* one depth layer per ingested line, a combined depth layer and two slope
\* layers, all of shape (cells along x, cells along y).
NaN == <<>>

\* slope of the combined surface the engine may report (flat, or dipping
\* equally along x and y)
Slopes == {0, 1}

ArrayMax(v) == CHOOSE m \in Range(v) : \A n \in Range(v) : m >= n

RECURSIVE SumSeq(_)
SumSeq(v) == IF v = <<>> THEN 0 ELSE v[1] + SumSeq(Tail(v))

\* python slice s[a:b] for 0 <= a, 0 <= b
PySlice(s, a, b) ==
    LET hi == IF b < Len(s) THEN b ELSE Len(s)
    IN  IF a + 1 > hi THEN <<>> ELSE SubSeq(s, a + 1, hi)

\* shape of a 2-D array
Shape(arr) == <<Len(arr), IF Len(arr) = 0 THEN 0 ELSE Len(arr[1])>>

\* a grid that ingested nothing
EmptyGrid ==
    [min_x |-> 0, min_y |-> 0, max_x |-> 0, max_y |-> 0, resolutions |-> <<2>>,
     depth |-> <<>>, x_slope |-> <<>>, y_slope |-> <<>>,
     layers |-> [k \in 1..Len(LineNames) |-> <<>>]]

\* the grid built from the per-line point sets, with the slopes sx, sy the
\* engine derives for the combined surface
GridOf(ingested, sx, sy) ==
    LET all == Concatenate(ingested)
        xs == [k \in 1..Len(all) |-> all[k].x]
        ys == [k \in 1..Len(all) |-> all[k].y]
        res == 2
        gmin_x == res * (ArrayMin(xs) \div res)
        gmin_y == res * (ArrayMin(ys) \div res)
        gmax_x == res * ((ArrayMax(xs) \div res) + 1)
        gmax_y == res * ((ArrayMax(ys) \div res) + 1)
        nx == (gmax_x - gmin_x) \div res
        ny == (gmax_y - gmin_y) \div res
        InCell(p, i, j) == /\ (p.x - gmin_x) \div res = i - 1
                           /\ (p.y - gmin_y) \div res = j - 1
        Layer(pts) ==
            [i \in 1..nx |-> [j \in 1..ny |->
                LET hit == SelectSeq(pts, LAMBDA p : InCell(p, i, j))
                    zs == [k \in 1..Len(hit) |-> hit[k].z]
                IN  IF zs = <<>> THEN NaN ELSE Some(SumSeq(zs) \div Len(zs))]]
        depth == Layer(all)
        Const(c) == [i \in 1..nx |-> [j \in 1..ny |->
                        IF depth[i][j] = NaN THEN NaN ELSE Some(c)]]
    IN  [min_x |-> gmin_x, min_y |-> gmin_y, max_x |-> gmax_x, max_y |-> gmax_y,
         resolutions |-> <<res>>,
         depth |-> depth, x_slope |-> Const(sx), y_slope |-> Const(sy),
         layers |-> [k \in 1..Len(ingested) |-> Layer(ingested[k])]]

\* ------------------------------------------------------------ _grid (143-156)
\* self.points is not None and self.points.size > 0
GridGuard(pts) == pts # None /\ Len(pts[1]) > 0

\* the slices self.points[idxs[0]:idxs[1]] handed to add_points, line by line
Ingested(pts, idxs) ==
    [k \in 1..Len(idxs) |-> PySlice(pts, idxs[k][1], idxs[k][2])]

Grid ==
    /\ pc = "grid"
    /\ IF GridGuard(points)
         THEN LET ingested == Ingested(points[1], multibeam_indexes[1])
              IN  IF Concatenate(ingested) = <<>>
                    THEN \* the engine was given no points at all: it either
                         \* refuses to grid or yields a grid without cells
                         \/ /\ raised' = Some(ValueError(<<>>))
                            /\ pc' = "idle"
                            /\ UNCHANGED grid
                         \/ /\ grid' = Some(EmptyGrid)
                            /\ pc' = "build"
                            /\ UNCHANGED raised
                    ELSE /\ \E s \in Slopes :
                                grid' = Some(GridOf(ingested, s, s))
                         /\ pc' = "build"
                         /\ UNCHANGED raised
         ELSE /\ pc' = "build"
              /\ UNCHANGED <<grid, raised>>
    /\ UNCHANGED <<ctor_arg, azimuth, initial_parameters, fqpr, multibeam_files,
                   multibeam_indexes, points, min_x, min_y, a_matrix, b_matrix,
                   result, stdout, runs>>

\* -------------------------------------------- _build_patch_test_values (158-203)
\* np.logical_and(~np.isnan(lineone), ~np.isnan(linetwo))
ValidIndex(lineone, linetwo) ==
    [i \in 1..Len(lineone) |-> [j \in 1..Len(lineone[i]) |->
        lineone[i][j] # NaN /\ linetwo[i][j] # NaN]]

\* seeded fault: the overlap test is dropped
ValidAny_always(mask) == mask = mask

\* valid_index.any()
ValidAny(mask) == \E i \in 1..Len(mask) : \E j \in 1..Len(mask[i]) : mask[i][j]

\* np.arange(lo, hi, step) for integers lo <= hi, step > 0
Arange(lo, hi, step) ==
    [k \in 1..((hi - lo + step - 1) \div step) |-> lo + (k - 1) * step]

\* np.meshgrid(xv, yv) with the default indexing='xy': both outputs have shape
\* (len(yv), len(xv)); the first repeats xv along axis 1, the second repeats yv
\* along axis 0
Meshgrid(xv, yv) ==
    [x_node_locs |-> [r \in 1..Len(yv) |-> [c \in 1..Len(xv) |-> xv[c]]],
     y_node_locs |-> [r \in 1..Len(yv) |-> [c \in 1..Len(xv) |-> yv[r]]]]

\* the y_node_locs array of line 176 for grid g
YNodeLocs(g) ==
    LET grid_rez == g.resolutions[1]
        xval == Arange(g.min_x, g.max_x, g.resolutions[1])
        yval == Arange(g.min_y, g.max_y, g.resolutions[1])
    IN  Meshgrid([k \in 1..Len(xval) |-> xval[k] + grid_rez \div 2],
                 [k \in 1..Len(yval) |-> yval[k] + grid_rez \div 2]).y_node_locs

\* indexes of the true entries of a mask, in flattening (row-major) order
TrueCells(mask) ==
    LET n0 == Shape(mask)[1]
        n1 == Shape(mask)[2]
        cells == [k \in 1..(n0 * n1) |->
                     <<((k - 1) \div n1) + 1, ((k - 1) % n1) + 1>>]
    IN  SelectSeq(cells, LAMBDA c : mask[c[1]][c[2]])

\* arr[valid_index] for arrays of equal shape
Masked(arr, mask) ==
    LET cells == TrueCells(mask)
    IN  [k \in 1..Len(cells) |-> arr[cells[k][1]][cells[k][2]]]

\* np.dot(m.T, n) for an (r x p) array m and an (r x q) array n given by rows
DotT(m, n, p, q) ==
    [u \in 1..p |-> [v \in 1..q |->
        SumSeq([r \in 1..Len(m) |-> m[r][u] * n[r][v]])]]

\* the six columns of lines 186-191 for one valid cell
DesignRow(dpth, ynode, xslope, yslope) ==
    <<yslope * dpth - ynode, xslope * dpth, xslope * ynode, xslope, yslope,
      yslope * ynode>>

NoOverlapMessage(files) ==
    [text |-> "No valid overlap found for lines:", arg |-> files]

\* the overlap mask of grid g (line 170)
OverlapMask(g) == ValidIndex(g.layers[1], g.layers[2])

\* a_matrix of lines 186-191 for grid g, one row per valid cell
DesignMatrix(g) ==
    LET valid_index == OverlapMask(g)
        unwrap(v) == [k \in 1..Len(v) |-> v[k][1]]
        dpth_valid == unwrap(Masked(g.depth, valid_index))
        y_node_valid == Masked(YNodeLocs(g), valid_index)
        xslope_valid == unwrap(Masked(g.x_slope, valid_index))
        yslope_valid == unwrap(Masked(g.y_slope, valid_index))
    IN  [k \in 1..Len(dpth_valid) |->
            DesignRow(dpth_valid[k], y_node_valid[k], xslope_valid[k],
                      yslope_valid[k])]

\* l_one_matrix of line 192 for grid g
ObservationMatrix(g) ==
    LET valid_index == OverlapMask(g)
        unwrap(v) == [k \in 1..Len(v) |-> v[k][1]]
        lineone_valid == unwrap(Masked(g.layers[1], valid_index))
        linetwo_valid == unwrap(Masked(g.layers[2], valid_index))
    IN  [k \in 1..Len(lineone_valid) |-> <<lineone_valid[k], linetwo_valid[k]>>]

\* self.a_matrix = np.dot(a_t, a_matrix)
AMatrix(g) == DotT(DesignMatrix(g), DesignMatrix(g), 6, 6)

\* self.b_matrix = np.dot(a_t, l_one_matrix)
BMatrix(g) == DotT(DesignMatrix(g), ObservationMatrix(g), 6, 2)

BuildPatchTestValues ==
    /\ pc = "build"
    /\ IF grid # None
         THEN LET g == grid[1]
              IN  IF ValidAny(OverlapMask(g))
                    THEN IF Shape(YNodeLocs(g)) # Shape(OverlapMask(g))
                      THEN \* boolean index did not match indexed array
                           /\ raised' = Some(IndexError)
                           /\ pc' = "idle"
                           /\ UNCHANGED <<a_matrix, b_matrix, stdout>>
                      ELSE /\ a_matrix' = Some(AMatrix(g))
                           /\ b_matrix' = Some(BMatrix(g))
                           /\ pc' = "lstsq"
                           /\ UNCHANGED <<raised, stdout>>
                    ELSE /\ stdout' = Append(stdout, NoOverlapMessage(multibeam_files[1]))
                         /\ pc' = "lstsq"
                         /\ UNCHANGED <<a_matrix, b_matrix, raised>>
         ELSE /\ pc' = "lstsq"
              /\ UNCHANGED <<a_matrix, b_matrix, raised, stdout>>
    /\ UNCHANGED <<ctor_arg, azimuth, initial_parameters, fqpr, multibeam_files,
                   multibeam_indexes, points, min_x, min_y, grid, result, runs>>

\* ------------------------------------------------ _compute_least_squares (205-207)
\* np.linalg.lstsq(a, b, rcond=None)[0]: the minimum-norm least-squares
\* solution, a function of the two matrices that is defined for every rank;
\* it is kept symbolic
Lstsq(a, b) == [lstsq_a |-> a, lstsq_b |-> b]

\* seeded fault: the guard on the matrices is dropped
LeastSquaresGuard_always(a, b) == a = a /\ b = b

\* self.a_matrix is not None and self.b_matrix is not None
LeastSquaresGuard(a, b) == a # None /\ b # None

ComputeLeastSquares ==
    /\ pc = "lstsq"
    /\ IF LeastSquaresGuard(a_matrix, b_matrix)
         THEN result' = Some(Lstsq(a_matrix, b_matrix))
         ELSE UNCHANGED result
    /\ pc' = "idle"
    /\ UNCHANGED <<ctor_arg, azimuth, initial_parameters, fqpr, multibeam_files,
                   multibeam_indexes, points, min_x, min_y, grid, a_matrix,
                   b_matrix, stdout, raised, runs>>

\* ------------------------------------------------------ display_results (66-75)
ResultLabels == <<"roll: ", "pitch: ", "heading: ", "x_translation: ",
                  "y_translation: ", "horizontal scale factor: ">>

Header == [text |-> "Patch test results", arg |-> <<>>]

\* seeded fault: the guard is dropped
DisplayGuard_always(f, r) == f = f /\ r = r

\* self.fqpr is not None and self.result is not None
DisplayGuard(f, r) == f # None /\ r # None

DisplayResults ==
    /\ pc = "idle"
    /\ IF DisplayGuard(fqpr, result)
         THEN IF result = None
           THEN \* None is not subscriptable
                /\ stdout' = <<Header, [text |-> "Lines: ", arg |-> LineNames]>>
                /\ raised' = Some(TypeError)
           ELSE /\ stdout' = <<Header, [text |-> "Lines: ", arg |-> LineNames]>> \o
                        [k \in 1..6 |-> [text |-> ResultLabels[k],
                                         arg |-> <<k - 1, result[1]>>]]
                /\ raised' = None
         ELSE /\ stdout' = <<Header>>
              /\ raised' = None
    /\ UNCHANGED <<pc, ctor_arg, azimuth, initial_parameters, fqpr, runs>>
    /\ UNCHANGED fields

\* ------------------------------------------------------------- specifications
NoFields ==
    /\ multibeam_files = None
    /\ multibeam_indexes = None
    /\ points = None
    /\ min_x = None
    /\ min_y = None
    /\ grid = None
    /\ a_matrix = None
    /\ b_matrix = None
    /\ result = None

\* initial_parameters arguments of the pipeline specification: the default and
\* a mapping without heading_unc
CtorArgs == {None, Some(Range(DefaultKeys) \ {"heading_unc"})}

InitWith(args) ==
    /\ pc = "new"
    /\ ctor_arg \in args
    /\ azimuth \in Azimuths
    /\ initial_parameters = None
    /\ fqpr = NoData
    /\ NoFields
    /\ stdout = <<>>
    /\ raised = None
    /\ runs = 0

Init == InitWith(CtorArgs)

Next ==
    \/ Construct
    \/ GenerateRotatedPoints
    \/ Grid
    \/ BuildPatchTestValues
    \/ ComputeLeastSquares
    \/ DisplayResults

Spec == Init /\ [][Next]_vars

\* construction alone, over every mapping built from CallerKeys
InitCtor == InitWith({None} \cup {Some(ks) : ks \in SUBSET CallerKeys})

NextCtor == Construct

SpecCtor == InitCtor /\ [][NextCtor]_vars

\* ===================================================================== claims
Buffer == Concatenate(fqpr)

BufferX == [k \in 1..Len(Buffer) |-> Buffer[k].x]

InRun == pc \in {"grid", "build", "lstsq"}

\* C1: after the point collector has run, the first line's range starts at 0,
\* the second line's range starts where the first ends, the last range ends at
\* the length of the concatenated buffer, and each range is as long as its
\* line's point count; when the buffer was populated the slices hold, in order,
\* exactly the soundings of their line
C1_RangesPartition ==
    multibeam_indexes # None =>
        LET idx == multibeam_indexes[1]
        IN  /\ idx[1][1] = 0
            /\ idx[1][2] = idx[2][1]
            /\ idx[2][2] = Len(Buffer)
            /\ \A k \in 1..2 : idx[k][2] - idx[k][1] = Len(fqpr[k])
            /\ (InRun /\ HasAny(BufferX)) =>
                 /\ Len(points[1]) = Len(Buffer)
                 /\ \A k \in 1..2 :
                      LET part == PySlice(points[1], idx[k][1], idx[k][2])
                      IN  [m \in 1..Len(part) |-> part[m].z]
                            = [m \in 1..Len(fqpr[k]) |-> fqpr[k][m].z]

C1_Witness ==
    /\ pc = "grid"
    /\ Len(fqpr[1]) = 2
    /\ Len(fqpr[2]) = 1
    /\ points # None
    /\ multibeam_indexes = Some(<<(<<0, 2>>), (<<2, 3>>)>>)

\* C2: every step of a run_patch invocation for which the data source returned
\* zero points for both lines, entered with no grid, matrices or result, leaves
\* grid, a_matrix, b_matrix and result None, lets no exception escape, and has
\* the no-data diagnostic naming the requested lines on stdout
C2_NoDataHalts ==
    [][((runs' = runs + 1 \/ InRun) /\ fqpr' = NoData /\ grid = None
            /\ a_matrix = None /\ b_matrix = None /\ result = None)
        => (/\ grid' = None
            /\ a_matrix' = None
            /\ b_matrix' = None
            /\ result' = None
            /\ raised' = None
            /\ pc' # "failed"
            /\ stdout' = <<NoPointsMessage(LineNames)>>)]_vars

C2_Witness ==
    /\ runs > 0
    /\ pc = "idle"
    /\ fqpr = NoData
    /\ stdout = <<NoPointsMessage(LineNames)>>
    /\ grid = None
    /\ result = None
    /\ raised = None

\* a grid is held and no cell has a depth in both per-line layers
NoOverlap ==
    /\ grid # None
    /\ LET lineone == grid[1].layers[1]
           linetwo == grid[1].layers[2]
       IN  \A i \in 1..Len(lineone) : \A j \in 1..Len(lineone[i]) :
               lineone[i][j] = NaN \/ linetwo[i][j] = NaN

HasLine(out, line) == \E k \in 1..Len(out) : out[k] = line

\* C3: when the overlap mask of the grid has no true entry, the design-matrix
\* stage sets neither a_matrix nor b_matrix and prints the no-overlap
\* diagnostic naming the two lines, the solver stage leaves a None result None
\* (the solve is not performed), and no exception escapes
C3_NoOverlapHalts ==
    [][/\ (pc = "build" /\ NoOverlap) =>
            /\ a_matrix' = a_matrix
            /\ b_matrix' = b_matrix
            /\ HasLine(stdout', NoOverlapMessage(LineNames))
            /\ raised' = None
            /\ pc' = "lstsq"
       /\ (pc = "lstsq" /\ NoOverlap /\ result = None) =>
            /\ a_matrix' = None
            /\ b_matrix' = None
            /\ result' = None
            /\ raised' = None
            /\ HasLine(stdout', NoOverlapMessage(LineNames))
            /\ pc' = "idle"]_vars

C3_Witness ==
    /\ pc = "idle"
    /\ runs > 0
    /\ NoOverlap
    /\ Len(fqpr[1]) > 0
    /\ Len(fqpr[2]) > 0
    /\ result = None
    /\ a_matrix = None
    /\ raised = None
    /\ HasLine(stdout, NoOverlapMessage(LineNames))

\* C4: after every run_patch invocation each of points, grid, a_matrix,
\* b_matrix and result is either None or the value computed from the input of
\* that invocation
C4_NoStaleBuffers ==
    (pc = "idle" /\ runs > 0) =>
        /\ points # None =>
             /\ HasAny(BufferX)
             /\ points[1] = RotatePoints(Buffer, azimuth)
        /\ grid # None =>
             /\ points # None
             /\ \E s \in Slopes :
                  grid[1] = GridOf(Ingested(points[1], multibeam_indexes[1]), s, s)
        /\ a_matrix # None =>
             /\ grid # None
             /\ ValidAny(OverlapMask(grid[1]))
             /\ a_matrix[1] = AMatrix(grid[1])
        /\ b_matrix # None =>
             /\ grid # None
             /\ ValidAny(OverlapMask(grid[1]))
             /\ b_matrix[1] = BMatrix(grid[1])
        /\ result # None =>
             /\ a_matrix # None
             /\ b_matrix # None
             /\ result[1] = Lstsq(a_matrix, b_matrix)

\* C5: whenever the solver stage runs on a normal-equation system it sets
\* result to the least-squares solution and prints the rank as a diagnostic
C5_RankReported ==
    [][(pc = "lstsq" /\ LeastSquaresGuard(a_matrix, b_matrix))
        => (/\ result' = Some(Lstsq(a_matrix, b_matrix))
            /\ raised' = None
            /\ \E k \in 1..Len(stdout') : stdout'[k].text = "rank")]_vars

\* C6: construction raises exactly when a recognized key is absent from the
\* supplied mapping, the error lists exactly the absent keys (each once), and
\* with no mapping the defaults are used and nothing is raised
C6_MissingKeysError ==
    pc # "new" =>
        IF ctor_arg = None
          THEN /\ raised = None
               /\ pc = "idle"
               /\ initial_parameters = Some(Range(DefaultKeys))
          ELSE LET absent == Range(DefaultKeys) \ ctor_arg[1]
               IN  /\ (raised # None) <=> (absent # {})
                   /\ (pc = "failed") <=> (absent # {})
                   /\ raised # None =>
                        /\ raised[1].type = "ValueError"
                        /\ Range(raised[1].detail) = absent
                        /\ Len(raised[1].detail) = Cardinality(absent)
                   /\ raised = None => initial_parameters = ctor_arg

C6_Witness ==
    /\ pc = "failed"
    /\ ctor_arg = Some(Range(DefaultKeys) \ {"heading_unc"})
    /\ raised = Some(ValueError(<<"heading_unc">>))

\* C7: a call of the reporter changes no pipeline field, and when result is
\* None it raises nothing and prints the header only (no lines, no parameter
\* rows)
C7_ReporterObserves ==
    [][(pc = "idle" /\ pc' = "idle" /\ runs' = runs)
        => (/\ fields' = fields
            /\ result = None => (raised' = None /\ stdout' = <<Header>>))]_vars

C7_Witness ==
    /\ pc = "idle"
    /\ runs = 0
    /\ result = None
    /\ stdout = <<Header>>
    /\ raised = None

\* C8: for every grid with a valid-overlap cell the coordinate mesh has the
\* shape of the layers, and the node_y taken for valid cell (i, j) is the
\* centre of that cell along y
C8_NodeYIsCellCentre ==
    (grid # None /\ ValidAny(OverlapMask(grid[1]))) =>
        LET g == grid[1]
            res == g.resolutions[1]
            cells == TrueCells(OverlapMask(g))
        IN  /\ Shape(YNodeLocs(g)) = Shape(OverlapMask(g))
            /\ \A k \in 1..Len(cells) :
                 YNodeLocs(g)[cells[k][1]][cells[k][2]]
                     = g.min_y + (cells[k][2] - 1) * res + res \div 2

\* C9: when the data source returns at least one sounding the point collector
\* populates points, min_x and min_y with the rotated buffer and prints no
\* no-data diagnostic
C9_NoDataOnlyWhenEmpty ==
    (pc = "grid" /\ Len(Buffer) > 0) =>
        /\ points = Some(RotatePoints(Buffer, azimuth))
        /\ min_x = Some(ArrayMin(BufferX))
        /\ min_y # None
        /\ ~HasLine(stdout, NoPointsMessage(LineNames))

\* C10: stage outputs are populated in pipeline order: a grid only with a
\* non-empty point buffer, a_matrix exactly with b_matrix and only with a
\* grid, a result only with both matrices; on a fresh instance the result is
\* None until the last stage of the first run has completed
C10_PipelineOrder ==
    /\ (runs <= 1 /\ pc # "idle") => result = None
    /\ grid # None => (points # None /\ Len(points[1]) > 0)
    /\ (a_matrix # None) <=> (b_matrix # None)
    /\ a_matrix # None => grid # None
    /\ result # None => (a_matrix # None /\ b_matrix # None)

C10_Witness ==
    /\ runs = 1
    /\ pc = "idle"
    /\ result # None
    /\ a_matrix # None
    /\ grid # None

====
